---- MODULE Spec2Model ----
(***************************************************************************)
(* Level-progression state machine and quiz orchestration of the adaptive  *)
(* tutor backend (routes/vault.py, routes/session.py, llm.py).             *)
(*                                                                         *)
(* progress   : the user_progress table, a map from user id to its row.    *)
(*              A row is a partial record: a column that was never         *)
(*              written is absent from the row's domain.                   *)
(* quiz_store : the in-memory _quiz_store dict, user id -> quiz session.   *)
(* last       : the request just handled and the response it produced      *)
(*              (HTTP error or response model), with the collaborator      *)
(*              requests the handler issued, in order.                     *)
(* ladder     : history of the diagnostic cycle per user: the level of the *)
(*              last successful gatekeeper entry above level 1 and the     *)
(*              number of failing submissions at that level since, with no *)
(*              other request of that user in between.                     *)
(* inflight   : the requests being handled in steps (SpecRace): per slot,  *)
(*              the handler's position and its local variables. The other  *)
(*              specifications run every handler as one step and leave it  *)
(*              empty.                                                     *)
(***************************************************************************)
EXTENDS Integers, Sequences, FiniteSets, TLC

VARIABLES progress, quiz_store, last, ladder, inflight

vars == <<progress, quiz_store, last, ladder, inflight>>

----------------------------------------------------------------------------
(* Bounds of the model *)

\* submit_answer is not taken once diagnostic_attempts has reached this cap
MaxAttempts == 4
\* the collaborator returns at most this many quiz questions
MaxQuestions == 2
\* quiz_answer is not taken once a session holds this many result records
MaxResults == 2
\* lines of a reply that is not a JSON list: any lines up to MaxShortLines,
\* and up to MaxLines lines that all pass the length filter
MaxShortLines == 2
MaxLines == 9

(* Program constants *)
MIN_LEVEL == 1
MAX_LEVEL == 5
PASS_PERCENT == 70
FALLBACK_MIN_LEN == 10
FALLBACK_CAP == 8

Users == {"u1", "u2"}
Solo == {"u1"}
Topics == {"hashing", "recursion"}
\* the level of a request is any integer: below, inside and above 1..5
LevelArgs == {0 - 1, 1, 2, 4, 5, 7}
\* what the text of a grading reply contains, upper-cased
Markers == {"VERDICT: PASS", "VERDICT: FAIL"}
Raws == SUBSET Markers
\* which collaborator request of a handler raises (0: none does)
FailPoints == 0..2
\* quiz_mode of a request; "" stands for an absent (None) or empty mode
ModeArgs == {"levelup", "exam", ""}
\* the question list generate_quiz_questions returns: any number of strings
QuestionLists == {[i \in 1..n |-> i] : n \in 0..MaxQuestions}

\* a reply that json.loads reads as a list of strings
JsonReply(items) == [kind |-> "json", items |-> items]

\* any other reply, as its lines; a line is pad whitespace characters, then
\* marks characters out of "-\u20220123456789.) ", then text characters of which
\* the first is not one of those and the last is not whitespace
TextReply(lines) == [kind |-> "text", lines |-> lines]

LineLens == {0, 9, 10, 11}

LineKinds == {[pad |-> p, marks |-> m, text |-> t] :
                p \in {0, 1}, m \in {0, 2}, t \in LineLens}

TextReplies ==
    {TextReply(ls) : ls \in UNION {[1..n -> LineKinds] : n \in 0..MaxShortLines}}
    \cup {TextReply([i \in 1..n |-> [pad |-> 0, marks |-> 2, text |-> 11]]) :
             n \in (MaxShortLines + 1)..MaxLines}
\* question_index of a request is any integer: a negative one, and 0 and up
QIndexArgs == {0 - 3} \cup 0..MaxQuestions
\* the levels quizzes are started at: below 1, promotable, at the cap, above 5
QuizLevelArgs == {0 - 1, 4, 5, 7}
\* replies to a quiz grading request: without and with a PASS verdict
QuizRaws == {{}, {"VERDICT: PASS"}}

----------------------------------------------------------------------------
(* Helpers on partial records (Python dicts, table rows, response models) *)

Max(a, b) == IF a >= b THEN a ELSE b
Min(a, b) == IF a <= b THEN a ELSE b

\* dict.get(key, default)
Get(d, key, default) == IF key \in DOMAIN d THEN d[key] ELSE default

\* {**row, **updates}
Merge(row, updates) ==
    [f \in DOMAIN row \cup DOMAIN updates |->
        IF f \in DOMAIN updates THEN updates[f] ELSE row[f]]

SetField(r, f, v) == Merge(r, f :> v)

NoRows == <<>>

----------------------------------------------------------------------------
(* routes/vault.py: _save_progress *)

_save_progress(table, user_id, updates) ==
    IF user_id \in DOMAIN table
    THEN [table EXCEPT ![user_id] = Merge(@, updates)]
    ELSE (user_id :> updates) @@ table

----------------------------------------------------------------------------
(* llm.py: call_llm *)

ParseVerdict(raw) ==
    IF "VERDICT: PASS" \in raw THEN "PASS"
    ELSE IF "VERDICT: FAIL" \in raw THEN "FAIL"
    ELSE "NONE"

\* the AskResponse built from the collaborator's reply; a field that is None
\* is absent from the record
call_llm(message_type, level, raw) ==
    LET verdict == IF message_type = "check_answer" THEN ParseVerdict(raw) ELSE "NONE"
        base == [content |-> message_type]
        withPassed == IF verdict = "NONE" THEN base
                      ELSE SetField(base, "passed", verdict = "PASS")
    IN  IF message_type = "reveal_answer"
        THEN SetField(withPassed, "recommended_level", Max(1, level - 1))
        ELSE withPassed

----------------------------------------------------------------------------
(* routes/vault.py: gatekeeper *)

LevelValid_NoUpper(level) == ~(level < MIN_LEVEL)

LevelValid(level) == ~(level < MIN_LEVEL \/ level > MAX_LEVEL)

GatekeeperRow_KeepAttempts(topic, level) ==
    [topic |-> topic, current_level |-> level, diagnostic_passed |-> (level = 1),
     hint_stage |-> 0]

GatekeeperRow(topic, level) ==
    IF level = 1
    THEN [topic |-> topic, current_level |-> 1, diagnostic_passed |-> TRUE,
          diagnostic_attempts |-> 0, hint_stage |-> 0]
    ELSE [topic |-> topic, current_level |-> level, diagnostic_passed |-> FALSE,
          diagnostic_attempts |-> 0, hint_stage |-> 0]

gatekeeper(u, topic, level, fail) ==
    LET req == [op |-> "gatekeeper", user |-> u, topic |-> topic, level |-> level]
        mt  == IF level = 1 THEN "lesson" ELSE "generate_question"
    IN  /\ UNCHANGED quiz_store
        /\ IF ~LevelValid(level)
           THEN /\ last' = req @@ [status |-> "InvalidLevelError", llm |-> <<>>]
                /\ UNCHANGED progress
           ELSE IF fail = 1
           THEN /\ last' = req @@ [status |-> "CollaboratorError", llm |-> <<mt>>]
                /\ UNCHANGED progress
           ELSE /\ progress' = _save_progress(progress, u, GatekeeperRow(topic, level))
                /\ last' = req @@ [status |-> "ok", llm |-> <<mt>>]
                               @@ call_llm(mt, level, {})

----------------------------------------------------------------------------
(* routes/vault.py: submit_answer *)

\* supabase...select("*").eq("id", user_id).execute().data: the rows found
select_progress_Default(table, user_id) ==
    IF user_id \in DOMAIN table THEN <<table[user_id]>>
    ELSE <<[diagnostic_attempts |-> 0]>>

select_progress(table, user_id) ==
    IF user_id \in DOMAIN table THEN <<table[user_id]>> ELSE <<>>

PassUpdates_Reset(attempts) ==
    [diagnostic_passed |-> TRUE, diagnostic_attempts |-> 0, hint_stage |-> 0]

PassUpdates_KeepHint(attempts) ==
    [diagnostic_passed |-> TRUE, diagnostic_attempts |-> attempts + 1]

PassUpdates(attempts) ==
    [diagnostic_passed |-> TRUE, diagnostic_attempts |-> attempts + 1, hint_stage |-> 0]

drop_level_NoDemotion(level) == Max(1, level)

drop_level(level) == Max(1, level - 1)

FailUpdates_HintKept(new_attempts, level) ==
    IF new_attempts = 1 THEN [hint_stage |-> 1]
    ELSE IF new_attempts = 2 THEN [hint_stage |-> 2]
    ELSE [diagnostic_passed |-> FALSE, current_level |-> drop_level(level)]

\* the second write of the FAIL branch, keyed by the new attempt count
FailUpdates(new_attempts, level) ==
    IF new_attempts = 1 THEN [hint_stage |-> 1]
    ELSE IF new_attempts = 2 THEN [hint_stage |-> 2]
    ELSE [diagnostic_passed |-> FALSE, current_level |-> drop_level(level),
          hint_stage |-> 0]

FailMessage_OldCount(new_attempts) ==
    IF new_attempts - 1 = 1 THEN "hint_mermaid"
    ELSE IF new_attempts - 1 = 2 THEN "hint_pseudocode"
    ELSE "reveal_answer"

FailMessage(new_attempts) ==
    IF new_attempts = 1 THEN "hint_mermaid"
    ELSE IF new_attempts = 2 THEN "hint_pseudocode"
    ELSE "reveal_answer"

\* submit_answer from the grading request on, with the attempts read before
submit_graded(u, level, attempts, raw, fail) ==
    LET req == [op |-> "submit_answer", user |-> u, level |-> level]
        check_result == call_llm("check_answer", level, raw)
        check    == [check |-> ParseVerdict(raw)]
    IN  /\ UNCHANGED quiz_store
        /\ attempts < MaxAttempts
        /\ IF fail = 1
           THEN /\ last' = req @@ [status |-> "CollaboratorError",
                                   llm |-> <<"check_answer">>]
                /\ UNCHANGED progress
           ELSE IF Get(check_result, "passed", FALSE) = TRUE
           THEN /\ progress' = _save_progress(progress, u, PassUpdates(attempts))
                /\ IF fail = 2
                   THEN last' = req @@ check
                            @@ [status |-> "CollaboratorError",
                                llm |-> <<"check_answer", "lesson">>]
                   ELSE last' = req @@ check
                            @@ [status |-> "ok",
                                llm |-> <<"check_answer", "lesson">>]
                            @@ SetField(call_llm("lesson", level, {}),
                                        "passed", TRUE)
           ELSE
           LET new_attempts == attempts + 1
               mt == FailMessage(new_attempts)
               p1 == _save_progress(progress, u,
                                    [diagnostic_attempts |-> new_attempts])
               p2 == _save_progress(p1, u, FailUpdates(new_attempts, level))
               reply == SetField(call_llm(mt, level, {}), "passed", FALSE)
           IN  /\ progress' = p2
               /\ IF fail = 2
                  THEN last' = req @@ check
                           @@ [status |-> "CollaboratorError",
                               llm |-> <<"check_answer", mt>>]
                  ELSE last' = req @@ check
                           @@ [status |-> "ok", llm |-> <<"check_answer", mt>>]
                           @@ (IF new_attempts >= 3
                               THEN SetField(reply, "recommended_level",
                                             drop_level(level))
                               ELSE reply)

submit_answer(u, level, raw, fail) ==
    LET req == [op |-> "submit_answer", user |-> u, level |-> level]
        state_result == select_progress(progress, u)
    IN  IF state_result = <<>>
        THEN /\ last' = req @@ [status |-> "NoActiveSessionError", llm |-> <<>>]
             /\ UNCHANGED <<progress, quiz_store>>
        ELSE submit_graded(u, level,
                           Get(state_result[1], "diagnostic_attempts", 0), raw, fail)

----------------------------------------------------------------------------
(* routes/vault.py: get_lesson, chat *)

\* get_lesson sets message_type and calls call_llm; it reads no Progress row
get_lesson(u, level, fail) ==
    LET req == [op |-> "get_lesson", user |-> u, level |-> level]
    IN  /\ UNCHANGED <<progress, quiz_store>>
        /\ IF fail = 1
           THEN last' = req @@ [status |-> "CollaboratorError", llm |-> <<"lesson">>]
           ELSE last' = req @@ [status |-> "ok", llm |-> <<"lesson">>]
                            @@ call_llm("lesson", level, {})

\* raw: the tags found in the collaborator's reply; history: the markers found
\* in the contents of the request's history
chat(u, raw, history, fail) ==
    LET req == [op |-> "chat", user |-> u]
        quiz_done       == "QUIZ_DONE" \in history
        levelup_done    == "LEVELUP_DONE" \in history
        trigger_quiz    == "[POPQUIZ_TRIGGER]" \in raw /\ ~quiz_done
        trigger_levelup == "[LEVELUP_TRIGGER]" \in raw /\ ~levelup_done
    IN  /\ UNCHANGED <<progress, quiz_store>>
        /\ IF fail = 1
           THEN last' = req @@ [status |-> "CollaboratorError", llm |-> <<"chat">>]
           ELSE last' = req @@ [status |-> "ok", llm |-> <<"chat">>,
                                trigger_quiz |-> trigger_quiz,
                                trigger_levelup |-> trigger_levelup]

----------------------------------------------------------------------------
(* routes/vault.py: quiz_start *)

\* l.strip() is not empty
NonBlank(l) == l.marks + l.text > 0

\* l.strip().lstrip("-\u20220123456789.) "): line i of the reply, of which
\* the text characters are left
Stripped(l, i) == [id |-> i, len |-> l.text]

LongEnough_BeforeStrip(l) == l.marks + l.text > FALLBACK_MIN_LEN

\* len(l) > 10, on the stripped line
LongEnough(l) == l.text > FALLBACK_MIN_LEN

RECURSIVE FallbackFrom(_, _)
FallbackFrom(lines, i) ==
    IF i > Len(lines) THEN <<>>
    ELSE IF NonBlank(lines[i]) /\ LongEnough(lines[i])
    THEN <<Stripped(lines[i], i)>> \o FallbackFrom(lines, i + 1)
    ELSE FallbackFrom(lines, i + 1)

Fallback(lines) ==
    LET kept == FallbackFrom(lines, 1)
    IN  SubSeq(kept, 1, Min(FALLBACK_CAP, Len(kept)))

\* llm.py: generate_quiz_questions. A reply that parses as a JSON list of
\* strings is returned as parsed; any other reply goes through the line
\* fallback. The count drawn for the mode (1-2 or 5-8) goes into the prompt
\* only.
generate_quiz_questions(quiz_mode, reply) ==
    IF reply.kind = "json" THEN reply.items ELSE Fallback(reply.lines)

\* the quiz store after the handler raised on an empty question list: the
\* raise comes before the assignment to _quiz_store[user_id]
StoreAfterNoQuestions_Cleared(store, u) == [v \in DOMAIN store \ {u} |-> store[v]]

StoreAfterNoQuestions(store, u) == store

FreshSession_ModeNotStored(questions, topic, level, mode) ==
    [questions     |-> questions,
     current_index |-> 0,
     results       |-> <<>>,
     topic         |-> topic,
     level         |-> level,
     quiz_mode     |-> "popquiz"]

FreshSession(questions, topic, level, mode) ==
    [questions     |-> questions,
     current_index |-> 0,
     results       |-> <<>>,
     topic         |-> topic,
     level         |-> level,
     quiz_mode     |-> mode]

\* the response of a call that returns also records the request's arguments
quiz_start(u, topic, level, quiz_mode, reply, fail) ==
    LET req  == [op |-> "quiz_start", user |-> u]
        mode == IF quiz_mode = "" THEN "popquiz" ELSE quiz_mode
        questions == generate_quiz_questions(mode, reply)
    IN  /\ UNCHANGED progress
        /\ IF fail = 1
           THEN /\ last' = req @@ [status |-> "CollaboratorError",
                                   llm |-> <<"quiz_questions">>]
                /\ UNCHANGED quiz_store
           ELSE IF questions = <<>>
           THEN /\ last' = req @@ [status |-> "GenerationFailureError",
                                   llm |-> <<"quiz_questions">>,
                                   reply |-> reply,
                                   generated |-> Len(questions)]
                /\ quiz_store' = StoreAfterNoQuestions(quiz_store, u)
           ELSE /\ quiz_store' =
                      (u :> FreshSession(questions, topic, level, mode))
                      @@ [v \in DOMAIN quiz_store \ {u} |-> quiz_store[v]]
                /\ last' = req @@ [status |-> "ok", llm |-> <<"quiz_questions">>,
                                   reply |-> reply,
                                   generated |-> Len(questions),
                                   topic |-> topic, level |-> level,
                                   quiz_mode |-> quiz_mode, questions |-> questions,
                                   question_text   |-> questions[1],
                                   question_index  |-> 0,
                                   total_questions |-> Len(questions)]

----------------------------------------------------------------------------
(* routes/vault.py: quiz_answer *)

\* Python round(): to the nearest integer, a tie to the even one
Round(num, den) ==
    LET q == num \div den
        r == num % den
    IN  IF 2 * r < den THEN q
        ELSE IF 2 * r > den THEN q + 1
        ELSE IF q % 2 = 0 THEN q ELSE q + 1

Score(results) == Len(SelectSeq(results, LAMBDA r : r.passed))

Percent(score, total) == Round(score * 100, total)

Promoted_Half(mode, percent) == (mode = "levelup") /\ (2 * percent >= PASS_PERCENT)

Promoted_AnyMode(mode, percent) == percent >= PASS_PERCENT

Promoted(mode, percent) == (mode = "levelup") /\ (percent >= PASS_PERCENT)

NextLevel(promoted, level) == IF promoted THEN Min(MAX_LEVEL, level + 1) ELSE level

PromotionRow_LevelOnly(next_level) == [current_level |-> next_level]

PromotionRow(next_level) ==
    [current_level |-> next_level, diagnostic_passed |-> TRUE,
     diagnostic_attempts |-> 0, hint_stage |-> 0]

\* grade_quiz_answer: passed = "VERDICT: PASS" in raw.upper()
GradePassed(raw) == "VERDICT: PASS" \in raw

\* _quiz_store.get(user_id): the sessions found
quiz_get_Default(store, u) ==
    IF u \in DOMAIN store THEN <<store[u]>>
    ELSE <<FreshSession(<<1>>, "hashing", 1, "popquiz")>>

quiz_get(store, u) == IF u \in DOMAIN store THEN <<store[u]>> ELSE <<>>

\* del _quiz_store[user_id]
DeleteSession_Kept(store, u) == store

DeleteSession(store, u) == [v \in DOMAIN store \ {u} |-> store[v]]

IsLast_OnePast(current_index, questions) == current_index > Len(questions)

\* is_last = store["current_index"] >= len(store["questions"])
IsLast(current_index, questions) == current_index >= Len(questions)

quiz_answer(u, question_index, raw, fail) ==
    LET req == [op |-> "quiz_answer", user |-> u]
        found == quiz_get(quiz_store, u)
    IN  IF found = <<>>
        THEN /\ last' = req @@ [status |-> "NoActiveQuizError", llm |-> <<>>]
             /\ UNCHANGED <<progress, quiz_store>>
        ELSE
        LET store  == found[1]
            passed == GradePassed(raw)
            store1 == [store EXCEPT
                         !.results = Append(@, [question_index |-> question_index,
                                                passed |-> passed]),
                         !.current_index = question_index + 1]
            is_last == IsLast(store1.current_index, store1.questions)
            results == store1.results
            score   == Score(results)
            total   == Len(results)
            percent == Percent(score, total)
            mode    == store1.quiz_mode
            promoted   == Promoted(mode, percent)
            next_level == NextLevel(promoted, store1.level)
            weak_questions == SelectSeq(results, LAMBDA r : ~r.passed)
        IN  /\ Len(store.results) < MaxResults
            /\ IF fail = 1
               THEN /\ last' = req @@ [status |-> "CollaboratorError",
                                       llm |-> <<"grade_quiz_answer">>]
                    /\ UNCHANGED <<progress, quiz_store>>
               ELSE IF ~is_last
               THEN /\ quiz_store' = (u :> store1) @@ quiz_store
                    /\ last' = req @@ [status |-> "ok", llm |-> <<"grade_quiz_answer">>,
                                       question_index |-> question_index,
                                       passed |-> passed, quiz_complete |-> FALSE]
                    /\ UNCHANGED progress
               ELSE IF fail = 2
               THEN /\ quiz_store' = (u :> store1) @@ quiz_store
                    /\ last' = req @@ [status |-> "CollaboratorError",
                                       llm |-> <<"grade_quiz_answer", "quiz_summary">>]
                    /\ UNCHANGED progress
               ELSE /\ progress' =
                          IF promoted /\ next_level # store1.level
                          THEN _save_progress(progress, u, PromotionRow(next_level))
                          ELSE progress
                    /\ quiz_store' = DeleteSession(quiz_store, u)
                    /\ last' = req @@ [status |-> "ok",
                                       llm |-> <<"grade_quiz_answer", "quiz_summary">>,
                                       question_index |-> question_index,
                                       passed |-> passed, quiz_complete |-> TRUE,
                                       score |-> score, total |-> total,
                                       percent |-> percent, promoted |-> promoted,
                                       next_level |-> next_level,
                                       weak_topics |-> Len(weak_questions),
                                       quiz_mode |-> mode]

----------------------------------------------------------------------------
(* routes/vault.py: quiz_next *)

\* Python list indexing seq[idx] is defined for -len <= idx < len
InRange(seq, idx) == (0 - Len(seq)) <= idx /\ idx < Len(seq)

PyIndex(seq, idx) == IF idx >= 0 THEN seq[idx + 1] ELSE seq[Len(seq) + idx + 1]

NextQuestionResponse(store) ==
    [question_text   |-> PyIndex(store.questions, store.current_index),
     question_index  |-> store.current_index,
     total_questions |-> Len(store.questions)]

quiz_next(u) ==
    LET req == [op |-> "quiz_next", user |-> u, llm |-> <<>>]
        found == quiz_get(quiz_store, u)
    IN  /\ UNCHANGED <<progress, quiz_store>>
        /\ IF found = <<>>
           THEN last' = req @@ [status |-> "NoActiveQuizError"]
           ELSE IF found[1].current_index >= Len(found[1].questions)
           THEN last' = req @@ [status |-> "QuizAlreadyCompleteError"]
           ELSE IF ~InRange(found[1].questions, found[1].current_index)
           THEN last' = req @@ [status |-> "IndexError"]
           ELSE last' = req @@ [status |-> "ok"] @@ NextQuestionResponse(found[1])

----------------------------------------------------------------------------
(* routes/session.py: update_session, reset_session *)

\* the columns of SessionUpdateRequest; a body gives each one as <<>> (None)
\* or <<value>>
Fields == {"topic", "current_level", "diagnostic_attempts", "diagnostic_passed",
           "hint_stage"}

\* {k: v for k, v in body.dict().items() if v is not None}
Updates(body) == [k \in {f \in DOMAIN body : body[f] # <<>>} |-> body[k][1]]

\* update(updates) on the user's row when there is one, insert of
\* {id, **updates} otherwise
session_upsert_Replace(table, user_id, updates) ==
    (user_id :> updates) @@ table

session_upsert(table, user_id, updates) ==
    IF user_id \in DOMAIN table
    THEN (user_id :> Merge(table[user_id], updates)) @@ table
    ELSE (user_id :> updates) @@ table

Opt(row, f) == IF f \in DOMAIN row THEN <<row[f]>> ELSE <<>>

SessionData(row) ==
    [topic               |-> Opt(row, "topic"),
     current_level       |-> Opt(row, "current_level"),
     diagnostic_attempts |-> Get(row, "diagnostic_attempts", 0),
     diagnostic_passed   |-> Get(row, "diagnostic_passed", FALSE),
     hint_stage          |-> Get(row, "hint_stage", 0)]

update_session(u, body) ==
    LET req == [op |-> "update_session", user |-> u, body |-> body, llm |-> <<>>]
        updates == Updates(body)
    IN  /\ UNCHANGED quiz_store
        /\ IF DOMAIN updates = {}
           THEN /\ last' = req @@ [status |-> "NothingToUpdateError"]
                /\ UNCHANGED progress
           ELSE /\ progress' = session_upsert(progress, u, updates)
                /\ last' = req @@ [status |-> "ok", data |-> SessionData(progress'[u])]

\* a delete without the filter on the user id
reset_session_AllRows(u) ==
    /\ progress' = NoRows
    /\ last' = [op |-> "reset_session", user |-> u, status |-> "ok", llm |-> <<>>]
    /\ UNCHANGED quiz_store

reset_session(u) ==
    /\ progress' = [v \in DOMAIN progress \ {u} |-> progress[v]]
    /\ last' = [op |-> "reset_session", user |-> u, status |-> "ok", llm |-> <<>>]
    /\ UNCHANGED quiz_store

----------------------------------------------------------------------------
(* History of the diagnostic cycle, read off the request just handled *)

NoLadder == [L |-> 0, n |-> 0]

LadderAfter(old, resp) ==
    IF resp.op = "gatekeeper" /\ resp.status = "ok" /\ resp.level > 1
    THEN [L |-> resp.level, n |-> 0]
    ELSE IF /\ resp.op = "submit_answer"
            /\ "check" \in DOMAIN resp
            /\ resp.check # "PASS"
            /\ old.L > 1
            /\ resp.level = old.L
            /\ old.n < 3
    THEN [L |-> old.L, n |-> old.n + 1]
    ELSE NoLadder

LadderStep ==
    ladder' = [u \in Users |->
                 IF last'.user = u THEN LadderAfter(ladder[u], last') ELSE ladder[u]]

----------------------------------------------------------------------------
(* Requests handled in steps: submit_answer and quiz_answer split at their *)
(* grading request, during which other requests of the user are handled    *)

SubmitSlots == {"s1", "s2"}

AnswerSlots == {"a1", "a2"}

NoRequests == [s \in SubmitSlots \cup AnswerSlots |-> [pc |-> "idle"]]

\* submit_answer up to the grading request: the row is read once
submit_begin(s, u, level) ==
    LET state_result == select_progress(progress, u)
    IN  IF state_result = <<>>
        THEN /\ submit_answer(u, level, {}, 0)
             /\ LadderStep
             /\ inflight' = [inflight EXCEPT ![s] =
                               [pc |-> "done", user |-> u, status |-> last'.status]]
        ELSE /\ inflight' = [inflight EXCEPT ![s] =
                               [pc |-> "check", user |-> u, level |-> level,
                                attempts |-> Get(state_result[1],
                                                 "diagnostic_attempts", 0)]]
             /\ UNCHANGED <<progress, quiz_store, last, ladder>>

held_attempts_Reread(rec, table) ==
    Get(Get(table, rec.user, NoRows), "diagnostic_attempts", 0)

\* the local variable attempts, read before the grading request, is what the
\* writes after it use
held_attempts(rec, table) == rec.attempts

\* submit_answer from the reply of the grading request on
submit_finish(s, raw) ==
    LET rec == inflight[s]
    IN  /\ submit_graded(rec.user, rec.level, held_attempts(rec, progress), raw, 0)
        /\ LadderStep
        /\ inflight' = [inflight EXCEPT ![s] =
                          [pc |-> "done", user |-> rec.user, status |-> last'.status,
                           read |-> rec.attempts, check |-> last'.check,
                           chosen |-> last'.llm[2]]]

\* quiz_answer up to the grading request: the session is looked up
answer_begin(a, u, question_index) ==
    LET found == quiz_get(quiz_store, u)
    IN  IF found = <<>>
        THEN /\ quiz_answer(u, question_index, {}, 0)
             /\ LadderStep
             /\ inflight' = [inflight EXCEPT ![a] =
                               [pc |-> "done", user |-> u, status |-> last'.status]]
        ELSE /\ inflight' = [inflight EXCEPT ![a] =
                               [pc |-> "grade", user |-> u,
                                question_index |-> question_index,
                                seen |-> Len(found[1].results)]]
             /\ UNCHANGED <<progress, quiz_store, last, ladder>>

\* quiz_answer from the reply of the grading request on, for a session that
\* is still the one in the store: the record is appended to that dict
answer_finish(a, raw) ==
    LET rec == inflight[a]
    IN  /\ rec.user \in DOMAIN quiz_store
        /\ quiz_answer(rec.user, rec.question_index, raw, 0)
        /\ LadderStep
        /\ inflight' = [inflight EXCEPT ![a] =
                          [pc |-> "done", user |-> rec.user, status |-> last'.status,
                           question_index |-> rec.question_index,
                           seen |-> rec.seen]]

----------------------------------------------------------------------------
Init ==
    /\ progress = NoRows
    /\ quiz_store = NoRows
    /\ last = [op |-> "init", user |-> "none", status |-> "ok", llm |-> <<>>]
    /\ ladder = [u \in Users |-> NoLadder]
    /\ inflight = NoRequests

(* Spec: the diagnostic cycle under every request level, verdict and         *)
(* collaborator failure, with one-question quizzes at levels 4 and 5.        *)

EnterLevel ==
    \E u \in Solo, t \in Topics, l \in LevelArgs, f \in 0..1 :
        gatekeeper(u, t, l, f) /\ LadderStep /\ UNCHANGED inflight

SubmitAnswer ==
    \E u \in Solo, l \in LevelArgs, raw \in Raws, f \in FailPoints :
        submit_answer(u, l, raw, f) /\ LadderStep /\ UNCHANGED inflight

StartQuiz ==
    \E u \in Solo, l \in {4, 5}, m \in {"levelup", "popquiz"} :
        quiz_start(u, "hashing", l, m, JsonReply(<<1>>), 0) /\ LadderStep /\ UNCHANGED inflight

AnswerQuestion ==
    \E u \in Solo, raw \in QuizRaws :
        quiz_answer(u, 0, raw, 0) /\ LadderStep /\ UNCHANGED inflight

ResetProgress ==
    \E u \in Solo : reset_session(u) /\ LadderStep /\ UNCHANGED inflight

Next == EnterLevel \/ SubmitAnswer \/ StartQuiz \/ AnswerQuestion \/ ResetProgress

Spec == Init /\ [][Next]_vars

(* SpecQuiz: the quiz orchestrator under every level, mode, question list,   *)
(* question index from 0 up and verdict, with the question and grading requests *)
(* allowed to fail (the summary request answers), over the Progress rows     *)
(* that gatekeeper entries at levels 1 and 5 and a reset produce.            *)

QuizEnterLevel ==
    \E u \in Solo, l \in {1, 5} :
        gatekeeper(u, "hashing", l, 0) /\ LadderStep /\ UNCHANGED inflight

QuizStart ==
    \E u \in Solo, l \in QuizLevelArgs, m \in ModeArgs, qs \in QuestionLists,
       f \in 0..1 :
        quiz_start(u, "hashing", l, m, JsonReply(qs), f) /\ LadderStep /\ UNCHANGED inflight

QuizAnswer ==
    \E u \in Solo, i \in 0..MaxQuestions, raw \in QuizRaws, f \in 0..1 :
        quiz_answer(u, i, raw, f) /\ LadderStep /\ UNCHANGED inflight

QuizReset ==
    \E u \in Solo : reset_session(u) /\ LadderStep /\ UNCHANGED inflight

QuizPeek ==
    \E u \in Solo : quiz_next(u) /\ LadderStep /\ UNCHANGED inflight

NextQuiz == QuizEnterLevel \/ QuizStart \/ QuizAnswer \/ QuizPeek \/ QuizReset

SpecQuiz == Init /\ [][NextQuiz]_vars

(* SpecQuizFail: levelup and pop quizzes started at level 4 on any topic,   *)
(* answered with any question_index, in which the grading request or the     *)
(* summary request may fail.                                                 *)

FailStart ==
    \E u \in Solo, t \in Topics, m \in {"levelup", ""}, qs \in QuestionLists :
        quiz_start(u, t, 4, m, JsonReply(qs), 0) /\ LadderStep /\ UNCHANGED inflight

FailAnswer ==
    \E u \in Solo, i \in QIndexArgs, raw \in QuizRaws, f \in FailPoints :
        quiz_answer(u, i, raw, f) /\ LadderStep /\ UNCHANGED inflight

FailPeek ==
    \E u \in Solo : quiz_next(u) /\ LadderStep /\ UNCHANGED inflight

NextQuizFail == FailStart \/ FailAnswer \/ FailPeek

SpecQuizFail == Init /\ [][NextQuizFail]_vars

(* SpecParse: one quiz start over a reply that is not a JSON list, then     *)
(* peeks. The reply the collaborator will give is drawn in the initial       *)
(* state.                                                                     *)

InitParse ==
    /\ progress = NoRows
    /\ quiz_store = NoRows
    /\ last \in {[op |-> "init", user |-> "none", status |-> "ok", llm |-> <<>>,
                  reply |-> r] : r \in TextReplies}
    /\ ladder = [u \in Users |-> NoLadder]
    /\ inflight = NoRequests

ParseStart ==
    \E u \in Solo, m \in {"levelup", ""} :
        /\ last.op = "init"
        /\ quiz_start(u, "hashing", 1, m, last.reply, 0) /\ LadderStep /\ UNCHANGED inflight

ParsePeek ==
    \E u \in Solo : last.op # "init" /\ quiz_next(u) /\ LadderStep /\ UNCHANGED inflight

NextParse == ParseStart \/ ParsePeek

SpecParse == InitParse /\ [][NextParse]_vars

(* SpecInOrder: quizzes started while the user has none and answered in     *)
(* order, every request answered by its collaborator. A client that keeps   *)
(* answering is the fairness condition on InOrderAnswer.                     *)

InOrderStart ==
    \E u \in Solo, l \in QuizLevelArgs, m \in ModeArgs, qs \in QuestionLists :
        /\ u \notin DOMAIN quiz_store
        /\ quiz_start(u, "hashing", l, m, JsonReply(qs), 0)
        /\ LadderStep /\ UNCHANGED inflight

InOrderAnswer ==
    \E u \in Solo, raw \in QuizRaws :
        /\ u \in DOMAIN quiz_store
        /\ quiz_answer(u, quiz_store[u].current_index, raw, 0)
        /\ LadderStep /\ UNCHANGED inflight

InOrderPeek ==
    \E u \in Solo : quiz_next(u) /\ LadderStep /\ UNCHANGED inflight

NextInOrder == InOrderStart \/ InOrderAnswer \/ InOrderPeek

SpecInOrder == Init /\ [][NextInOrder]_vars /\ WF_vars(InOrderAnswer)

(* SpecRace: one user with two submissions and two answers to question 0   *)
(* of a two-question quiz, each split at its grading request and each run   *)
(* once, in any interleaving; the quiz is started once, so the session the  *)
(* answers looked up stays the one in the store.                             *)

RaceEnterLevel ==
    \E u \in Solo :
        /\ u \notin DOMAIN progress
        /\ gatekeeper(u, "hashing", 2, 0) /\ LadderStep /\ UNCHANGED inflight

RaceStartQuiz ==
    \E u \in Solo :
        /\ u \notin DOMAIN quiz_store
        /\ quiz_start(u, "hashing", 2, "popquiz", JsonReply(<<1, 2>>), 0)
        /\ LadderStep /\ UNCHANGED inflight

RaceSubmitBegin ==
    \E u \in Solo, s \in SubmitSlots :
        inflight[s].pc = "idle" /\ submit_begin(s, u, 2)

RaceSubmitFinish ==
    \E s \in SubmitSlots, raw \in QuizRaws :
        inflight[s].pc = "check" /\ submit_finish(s, raw)

RaceAnswerBegin ==
    \E u \in Solo, a \in AnswerSlots :
        inflight[a].pc = "idle" /\ answer_begin(a, u, 0)

RaceAnswerFinish ==
    \E a \in AnswerSlots, raw \in QuizRaws :
        inflight[a].pc = "grade" /\ answer_finish(a, raw)

NextRace ==
    \/ RaceEnterLevel \/ RaceStartQuiz \/ RaceSubmitBegin \/ RaceSubmitFinish
    \/ RaceAnswerBegin \/ RaceAnswerFinish

SpecRace == Init /\ [][NextRace]_vars

(* SpecUsers: two users, each running the seven operations one request at  *)
(* a time: entries at level 3, failing submissions at level 3, one-question *)
(* levelup quizzes started at level 1, updates of the level alone, resets.  *)

LevelBody ==
    [topic |-> <<>>, current_level |-> <<5>>, diagnostic_attempts |-> <<>>,
     diagnostic_passed |-> <<>>, hint_stage |-> <<>>]

UsersEnterLevel ==
    \E u \in Users : gatekeeper(u, "hashing", 3, 0) /\ LadderStep /\ UNCHANGED inflight

UsersSubmit ==
    \E u \in Users : submit_answer(u, 3, {}, 0) /\ LadderStep /\ UNCHANGED inflight

UsersStartQuiz ==
    \E u \in Users :
        quiz_start(u, "hashing", 1, "levelup", JsonReply(<<1>>), 0) /\ LadderStep /\ UNCHANGED inflight

UsersAnswer ==
    \E u \in Users, raw \in QuizRaws : quiz_answer(u, 0, raw, 0) /\ LadderStep /\ UNCHANGED inflight

UsersPeek ==
    \E u \in Users : quiz_next(u) /\ LadderStep /\ UNCHANGED inflight

UsersUpdate ==
    \E u \in Users : update_session(u, LevelBody) /\ LadderStep /\ UNCHANGED inflight

UsersReset ==
    \E u \in Users : reset_session(u) /\ LadderStep /\ UNCHANGED inflight

NextUsers ==
    \/ UsersEnterLevel \/ UsersSubmit \/ UsersStartQuiz \/ UsersAnswer
    \/ UsersPeek \/ UsersUpdate \/ UsersReset

SpecUsers == Init /\ [][NextUsers]_vars

(* SpecSession: the session routes, the lesson reload and the chat turn over *)
(* the rows that gatekeeper entries at level 1, partial updates and resets   *)
(* produce.                                                                  *)

BodyArgs ==
    [topic               : {<<>>, <<"recursion">>},
     current_level       : {<<>>, <<0>>, <<3>>},
     diagnostic_attempts : {<<>>, <<0>>, <<2>>},
     diagnostic_passed   : {<<>>, <<FALSE>>, <<TRUE>>},
     hint_stage          : {<<>>, <<1>>}]

Tags == {"[POPQUIZ_TRIGGER]", "[LEVELUP_TRIGGER]"}

HistoryMarks == {"QUIZ_DONE", "LEVELUP_DONE"}

SessionEnterLevel ==
    \E u \in Solo : gatekeeper(u, "hashing", 1, 0) /\ LadderStep /\ UNCHANGED inflight

SessionUpdate ==
    \E u \in Solo, body \in BodyArgs : update_session(u, body) /\ LadderStep /\ UNCHANGED inflight

SessionReset ==
    \E u \in Solo : reset_session(u) /\ LadderStep /\ UNCHANGED inflight

SessionLesson ==
    \E u \in Solo, l \in {1, 5}, f \in 0..1 : get_lesson(u, l, f) /\ LadderStep /\ UNCHANGED inflight

SessionChat ==
    \E u \in Solo, raw \in SUBSET Tags, h \in SUBSET HistoryMarks, f \in 0..1 :
        chat(u, raw, h, f) /\ LadderStep /\ UNCHANGED inflight

NextSession ==
    SessionEnterLevel \/ SessionUpdate \/ SessionReset \/ SessionLesson \/ SessionChat

SpecSession == Init /\ [][NextSession]_vars

----------------------------------------------------------------------------
(* Properties *)

\* the value of column f of u's row in table p: {v}, or {} when u has no row
\* or the column was never written
Col(p, u, f) == IF u \in DOMAIN p /\ f \in DOMAIN p[u] THEN {p[u][f]} ELSE {}

IsSubmit(resp) == resp.op = "submit_answer" /\ "check" \in DOMAIN resp

IsQuizEnd(resp) ==
    resp.op = "quiz_answer" /\ resp.status = "ok" /\ resp.quiz_complete

\* C1: after a successful gatekeeper entry at a level L above 1, the first
\* failing submission at level L leaves hint_stage = 1, the second leaves
\* hint_stage = 2, and the third leaves current_level = max(1, L-1),
\* hint_stage = 0 and diagnostic_passed = FALSE and, when it returns, returns
\* the reveal with passed = FALSE and recommended_level = max(1, L-1).
C1_HintLadder ==
    \A u \in Users :
        LET lad == ladder[u]
            L1  == IF lad.L - 1 >= 1 THEN lad.L - 1 ELSE 1
        IN  /\ lad.n = 1 => Col(progress, u, "hint_stage") = {1}
            /\ lad.n = 2 => Col(progress, u, "hint_stage") = {2}
            /\ lad.n = 3 =>
                 /\ Col(progress, u, "current_level") = {L1}
                 /\ Col(progress, u, "hint_stage") = {0}
                 /\ Col(progress, u, "diagnostic_passed") = {FALSE}
                 /\ (last.user = u /\ last.status = "ok") =>
                        /\ last.content = "reveal_answer"
                        /\ "passed" \in DOMAIN last
                        /\ last.passed = FALSE
                        /\ "recommended_level" \in DOMAIN last
                        /\ last.recommended_level = L1

C1_Revealed ==
    /\ ladder["u1"] = [L |-> 4, n |-> 3]
    /\ last.op = "submit_answer" /\ last.status = "ok"
    /\ progress["u1"].current_level = 3

C3_OnlyLevelupPromotes ==
    [][ \A u \in Users :
          (/\ last'.user = u /\ last'.op = "quiz_answer"
           /\ u \in DOMAIN quiz_store
           /\ quiz_store[u].quiz_mode # "levelup")
          => /\ progress' = progress
             /\ IsQuizEnd(last') => last'.promoted = FALSE ]_vars

C3_PerfectPopquiz ==
    /\ IsQuizEnd(last) /\ last.quiz_mode = "popquiz"
    /\ last.percent = 100 /\ last.total = 2
    /\ "u1" \in DOMAIN progress

\* C4: every Progress row that has a current_level has 1 <= current_level <= 5.
C4_LevelInRange ==
    \A u \in DOMAIN progress :
        "current_level" \in DOMAIN progress[u]
            => (1 <= progress[u].current_level /\ progress[u].current_level <= 5)

\* C5: the persisted diagnostic_attempts is between 0 and 3.
C5_AttemptsInRange ==
    \A u \in DOMAIN progress :
        "diagnostic_attempts" \in DOMAIN progress[u]
            => (0 <= progress[u].diagnostic_attempts
                /\ progress[u].diagnostic_attempts <= 3)

\* C6 as stated: immediately after a submission graded as passing, the
\* persisted diagnostic_attempts of that user is 0.
C6_PassResetsAttempts ==
    \A u \in Users :
        (last.user = u /\ IsSubmit(last) /\ last.check = "PASS")
            => Col(progress, u, "diagnostic_attempts") = {0}

\* C6 amended: a submission graded as passing does not reset the counter: the
\* persisted diagnostic_attempts is one more than before the call.
C6_PassCountsAttempt ==
    [][ \A u \in Users :
          (last'.user = u /\ IsSubmit(last') /\ last'.check = "PASS"
           /\ u \in DOMAIN progress)
          => Col(progress', u, "diagnostic_attempts")
               = {Get(progress[u], "diagnostic_attempts", 0) + 1} ]_vars

C6_PassedAtThirdAttempt ==
    /\ IsSubmit(last) /\ last.check = "PASS" /\ last.status = "ok"
    /\ Col(progress, "u1", "diagnostic_attempts") = {3}
    /\ Col(progress, "u1", "diagnostic_passed") = {TRUE}

\* C7: a submission graded as passing, in any state with a Progress row,
\* leaves the row with diagnostic_passed = TRUE and hint_stage = 0, leaves
\* topic and current_level as they were and, when it returns, returns the
\* lesson tagged passed = TRUE.
C7_PassUnlocksLesson ==
    [][ \A u \in Users :
          (last'.user = u /\ IsSubmit(last') /\ last'.check = "PASS"
           /\ u \in DOMAIN progress)
          => /\ Col(progress', u, "diagnostic_passed") = {TRUE}
             /\ Col(progress', u, "hint_stage") = {0}
             /\ Col(progress', u, "topic") = Col(progress, u, "topic")
             /\ Col(progress', u, "current_level") = Col(progress, u, "current_level")
             /\ last'.status = "ok" =>
                    /\ last'.content = "lesson"
                    /\ "passed" \in DOMAIN last'
                    /\ last'.passed = TRUE ]_vars

C7_PassedAfterReveal ==
    /\ IsSubmit(last) /\ last.check = "PASS" /\ last.status = "ok"
    /\ last.content = "lesson"
    /\ Col(progress, "u1", "diagnostic_attempts") = {4}
    /\ Col(progress, "u1", "diagnostic_passed") = {TRUE}

\* C8: a successful gatekeeper entry leaves the row holding exactly the given
\* topic, current_level = level, diagnostic_attempts = 0, hint_stage = 0 and
\* diagnostic_passed = (level = 1), whatever the row held before.
C8_EnterOverwritesRow ==
    \A u \in Users :
        (last.user = u /\ last.op = "gatekeeper" /\ last.status = "ok")
            => /\ 1 <= last.level /\ last.level <= 5
               /\ u \in DOMAIN progress
               /\ progress[u] = [topic |-> last.topic,
                                 current_level |-> last.level,
                                 diagnostic_passed |-> (last.level = 1),
                                 diagnostic_attempts |-> 0,
                                 hint_stage |-> 0]

C8_EnteredLevelOne ==
    /\ last.op = "gatekeeper" /\ last.status = "ok"
    /\ last.level = 1 /\ last.topic = "recursion"
    /\ last.content = "lesson"
    /\ progress["u1"].diagnostic_passed = TRUE

\* C9: a gatekeeper entry with level < 1 or level > 5 fails with
\* InvalidLevelError without any collaborator request and leaves the Progress
\* table and the quiz store as they were.
C9_InvalidLevelRejected ==
    [][ (last'.op = "gatekeeper" /\ (last'.level < 1 \/ last'.level > 5))
          => /\ last'.status = "InvalidLevelError"
             /\ last'.llm = <<>>
             /\ progress' = progress
             /\ quiz_store' = quiz_store ]_vars

C9_RejectedAboveFive ==
    /\ last.op = "gatekeeper" /\ last.level = 7
    /\ last.status = "InvalidLevelError"
    /\ "u1" \in DOMAIN progress /\ "u1" \in DOMAIN quiz_store

\* C10: a submission while the user has no Progress row fails with
\* NoActiveSessionError, makes no collaborator request and creates no row.
C10_SubmitNeedsRow ==
    [][ \A u \in Users :
          (last'.user = u /\ last'.op = "submit_answer" /\ u \notin DOMAIN progress)
          => /\ last'.status = "NoActiveSessionError"
             /\ last'.llm = <<>>
             /\ progress' = progress ]_vars

C10_SubmitAfterReset ==
    /\ last.op = "submit_answer" /\ last.status = "NoActiveSessionError"
    /\ "u1" \notin DOMAIN progress
    /\ "u1" \in DOMAIN quiz_store

C12_LastAnswerDestroysSession ==
    [][ \A u \in Users :
          (/\ last'.user = u /\ last'.op = "quiz_answer"
           /\ u \in DOMAIN quiz_store /\ u \in DOMAIN quiz_store'
           /\ Len(quiz_store'[u].results) = Len(quiz_store[u].results) + 1)
          => quiz_store'[u].current_index < Len(quiz_store'[u].questions) ]_vars

C14_QuestionCountByMode ==
    \A u \in DOMAIN quiz_store :
        LET n == Len(quiz_store[u].questions)
        IN  /\ quiz_store[u].quiz_mode = "popquiz" => (1 <= n /\ n <= 2)
            /\ quiz_store[u].quiz_mode = "levelup" => (5 <= n /\ n <= 8)

\* C15: a quiz start for which the collaborator yielded zero questions fails
\* with GenerationFailureError, and the quiz store (hence a session the user
\* already had) and the Progress table are left as they were.
C15_NoQuestionsNoSession ==
    [][ (/\ last'.op = "quiz_start"
         /\ "generated" \in DOMAIN last' /\ last'.generated = 0)
        => /\ last'.status = "GenerationFailureError"
           /\ quiz_store' = quiz_store
           /\ progress' = progress ]_vars

\* a failed start over a session that already holds a result
C15_FailedOverSession ==
    /\ last.op = "quiz_start" /\ last.status = "GenerationFailureError"
    /\ "u1" \in DOMAIN quiz_store
    /\ Len(quiz_store["u1"].results) = 1

C17_AnswerNeedsSession ==
    [][ \A u \in Users :
          (last'.user = u /\ last'.op = "quiz_answer" /\ u \notin DOMAIN quiz_store)
          => /\ last'.status = "NoActiveQuizError"
             /\ last'.llm = <<>>
             /\ quiz_store' = quiz_store
             /\ progress' = progress ]_vars

C17_AnswerWithoutSession ==
    /\ last.op = "quiz_answer" /\ last.status = "NoActiveQuizError"
    /\ quiz_store = NoRows
    /\ Col(progress, "u1", "diagnostic_passed") = {FALSE}

\* C18: in every session current_index equals the number of result records,
\* and results holds exactly one record for each question index below
\* current_index.
C18_IndexCountsResults ==
    \A u \in DOMAIN quiz_store :
        LET s == quiz_store[u]
        IN  /\ s.current_index = Len(s.results)
            /\ \A i \in 0..(s.current_index - 1) :
                  Cardinality({k \in 1..Len(s.results) :
                                 s.results[k].question_index = i}) = 1

\* C19: in every response with quiz_complete = true, total equals the number
\* of questions of the session, score <= total, and the number of weak
\* questions equals total - score.
C19_CompleteCountsAllQuestions ==
    [][ \A u \in Users :
          (last'.user = u /\ IsQuizEnd(last') /\ u \in DOMAIN quiz_store)
          => /\ last'.total = Len(quiz_store[u].questions)
             /\ last'.score <= last'.total
             /\ last'.weak_topics = last'.total - last'.score ]_vars

\* C20: a peek leaves the quiz store and the Progress table as they were,
\* and with a session whose current_index < len(questions) it returns
\* questions[current_index] with that index.
C20_PeekReadOnly ==
    [][ \A u \in Users :
          (last'.user = u /\ last'.op = "quiz_next")
          => /\ quiz_store' = quiz_store
             /\ progress' = progress
             /\ (/\ u \in DOMAIN quiz_store
                 /\ quiz_store[u].current_index < Len(quiz_store[u].questions))
                => /\ last'.status = "ok"
                   /\ last'.question_index = quiz_store[u].current_index
                   /\ last'.question_text =
                         PyIndex(quiz_store[u].questions, quiz_store[u].current_index)
      ]_vars

\* C21: a chat response never has trigger_quiz and trigger_levelup both true.
C21_OneTriggerPerTurn ==
    (last.op = "chat" /\ last.status = "ok")
    => ~(last.trigger_quiz /\ last.trigger_levelup)

\* C22: an update whose body gives no column fails with NothingToUpdateError
\* and leaves the Progress table as it was; otherwise the user's row holds,
\* after the call, the value given for every column given and the prior
\* value (or absence) of every column not given, and no other row changes.
\* The quiz store is not touched in either case.
C22_PartialUpdate ==
    [][ \A u \in Users :
          (last'.user = u /\ last'.op = "update_session")
          => LET given == {f \in Fields : last'.body[f] # <<>>}
             IN  /\ quiz_store' = quiz_store
                 /\ IF given = {}
                    THEN /\ last'.status = "NothingToUpdateError"
                         /\ progress' = progress
                    ELSE /\ last'.status = "ok"
                         /\ u \in DOMAIN progress'
                         /\ \A f \in given :
                               Col(progress', u, f) = {last'.body[f][1]}
                         /\ \A f \in Fields \ given :
                               Col(progress', u, f) = Col(progress, u, f)
                         /\ \A v \in Users \ {u} : \A f \in Fields :
                               Col(progress', v, f) = Col(progress, v, f) ]_vars

\* an update of the level alone over a gatekeeper row
C22_LevelAloneUpdated ==
    /\ last.op = "update_session" /\ last.status = "ok"
    /\ {f \in Fields : last.body[f] # <<>>} = {"current_level"}
    /\ Col(progress, "u1", "current_level") = {3}
    /\ Col(progress, "u1", "topic") = {"hashing"}
    /\ Col(progress, "u1", "diagnostic_passed") = {FALSE}

\* C26: a lesson reload succeeds only when the user's row exists with
\* diagnostic_passed = true and the requested level is at most the persisted
\* current_level.
C26_LessonOnlyWhenUnlocked ==
    \A u \in Users :
        (last.user = u /\ last.op = "get_lesson" /\ last.status = "ok")
        => /\ Col(progress, u, "diagnostic_passed") = {TRUE}
           /\ \E c \in Col(progress, u, "current_level") : last.level <= c

\* the lines of a text reply whose stripped length passes a threshold test
KeptLines(lines, min) == {i \in 1..Len(lines) : lines[i].text >= min}

\* res is, in order, the first FALLBACK_CAP lines out of the set kept
IsFirstOf(res, kept) ==
    /\ Len(res) = Min(FALLBACK_CAP, Cardinality(kept))
    /\ \A j \in 1..Len(res) :
          /\ res[j].id \in kept
          /\ Cardinality({i \in kept : i < res[j].id}) = j - 1

\* the questions a quiz start got out of its reply
StartQuestions(resp) ==
    IF resp.status = "ok" THEN resp.questions ELSE <<>>

\* C25 (as stated): when the reply is not a JSON list, the questions are, in
\* the reply's order, the first 8 lines whose stripped length is at least 10,
\* and the start fails with GenerationFailureError exactly when there is none.
C25_FallbackKeepsTenOrMore ==
    [][ (last'.op = "quiz_start" /\ "reply" \in DOMAIN last'
         /\ last'.reply.kind = "text")
        => /\ IsFirstOf(StartQuestions(last'),
                        KeptLines(last'.reply.lines, FALLBACK_MIN_LEN))
           /\ (last'.status = "GenerationFailureError")
                <=> (KeptLines(last'.reply.lines, FALLBACK_MIN_LEN) = {}) ]_vars

\* C25 (amended): when the reply is not a JSON list, the questions are, in
\* the reply's order, the first 8 lines whose stripped length is more than
\* 10 (a stripped line of exactly 10 characters is dropped), and the start
\* fails with GenerationFailureError exactly when there is none; the session
\* then holds exactly these questions.
C25_FallbackKeepsOverTen ==
    [][ (last'.op = "quiz_start" /\ "reply" \in DOMAIN last'
         /\ last'.reply.kind = "text")
        => /\ IsFirstOf(StartQuestions(last'),
                        KeptLines(last'.reply.lines, FALLBACK_MIN_LEN + 1))
           /\ (last'.status = "GenerationFailureError")
                <=> (KeptLines(last'.reply.lines, FALLBACK_MIN_LEN + 1) = {})
           /\ last'.status = "ok"
                => quiz_store'[last'.user].questions = last'.questions ]_vars

\* a line of exactly 10 characters dropped, a marked line of 11 kept
C25_TenDroppedElevenKept ==
    /\ last.op = "quiz_start" /\ last.status = "ok"
    /\ last.reply.kind = "text"
    /\ Len(last.reply.lines) = 2
    /\ last.reply.lines[1].text = 10
    /\ last.reply.lines[2].marks = 2 /\ last.reply.lines[2].text = 11
    /\ Len(last.questions) = 1 /\ last.questions[1].id = 2

\* C27: every submission that finds a Progress row and whose grading request
\* is answered raises the persisted diagnostic_attempts by exactly one,
\* whether the verdict is pass, fail or absent, and the request that follows
\* is the lesson on a pass and otherwise the hint or reveal keyed by the new
\* count (1: visual hint, 2: pseudocode hint, 3 and up: reveal).
C27_SubmitCountsAttempt ==
    [][ \A u \in Users :
          (/\ last'.user = u /\ last'.op = "submit_answer"
           /\ u \in DOMAIN progress /\ "check" \in DOMAIN last')
          => LET new == Get(progress[u], "diagnostic_attempts", 0) + 1
             IN  /\ Col(progress', u, "diagnostic_attempts") = {new}
                 /\ Len(last'.llm) = 2
                 /\ last'.llm[2] =
                       (IF last'.check = "PASS" THEN "lesson"
                        ELSE IF new = 1 THEN "hint_mermaid"
                        ELSE IF new = 2 THEN "hint_pseudocode"
                        ELSE "reveal_answer") ]_vars

\* a reply without verdict counted as the second failed attempt
C27_NoVerdictSecondAttempt ==
    /\ last.op = "submit_answer" /\ last.status = "ok"
    /\ last.check \notin {"PASS", "FAIL"}
    /\ last.llm = <<"check_answer", "hint_pseudocode">>
    /\ Col(progress, "u1", "diagnostic_attempts") = {2}

\* C28: in every row hint_stage is 0, 1 or 2, and a hint_stage other than 0
\* equals diagnostic_attempts (a column never written reads as 0).
C28_HintStageTracksAttempts ==
    \A u \in DOMAIN progress :
        LET h == Get(progress[u], "hint_stage", 0)
            a == Get(progress[u], "diagnostic_attempts", 0)
        IN  /\ h \in {0, 1, 2}
            /\ h # 0 => h = a

C28_SecondHintShown ==
    /\ Col(progress, "u1", "hint_stage") = {2}
    /\ Col(progress, "u1", "diagnostic_attempts") = {2}
    /\ last.op = "submit_answer" /\ last.status = "CollaboratorError"

\* C23: a request of one user changes neither the Progress row nor the quiz
\* session of another user.
C23_UsersIndependent ==
    [][ \A v \in Users :
          last'.user # v
          => /\ (v \in DOMAIN progress') <=> (v \in DOMAIN progress)
             /\ v \in DOMAIN progress => progress'[v] = progress[v]
             /\ (v \in DOMAIN quiz_store') <=> (v \in DOMAIN quiz_store)
             /\ v \in DOMAIN quiz_store => quiz_store'[v] = quiz_store[v] ]_vars

\* one user resets while the other holds a row and a quiz session
C23_ResetBesideOther ==
    /\ last.op = "reset_session" /\ last.user = "u1"
    /\ "u1" \notin DOMAIN progress
    /\ "u2" \in DOMAIN progress /\ "u2" \in DOMAIN quiz_store
    /\ Col(progress, "u2", "diagnostic_attempts") = {2}

\* C29: the persisted current_level of the user after an answer call is at
\* least the persisted current_level before it.
C29_QuizNeverLowersLevel ==
    [][ \A u \in Users :
          (last'.user = u /\ last'.op = "quiz_answer")
          => \A before \in Col(progress, u, "current_level") :
               \A after \in Col(progress', u, "current_level") :
                 after >= before ]_vars

\* C30: every quiz session has 0 <= current_index < len(questions), and no
\* peek fails with QuizAlreadyCompleteError.
C30_IndexInRange ==
    /\ \A u \in DOMAIN quiz_store :
          /\ 0 <= quiz_store[u].current_index
          /\ quiz_store[u].current_index < Len(quiz_store[u].questions)
    /\ last.op = "quiz_next" => last.status # "QuizAlreadyCompleteError"

\* C24: without locking, a submission writes the attempt count it read
\* before its grading request plus one and, when it fails, chooses its hint
\* by that count, whatever other requests of the user wrote in between; and
\* an answer appends its record whatever records the session already holds
\* for that question. Hence two failing submissions in flight at once that
\* read the same count raise it by one only and return the same hint, and
\* two answers in flight at once for one question both append a record.
C24_RequestsWriteWhatTheyRead ==
    [][ /\ \A s \in SubmitSlots :
            (inflight[s].pc = "check" /\ inflight'[s].pc = "done")
            => /\ Col(progress', inflight[s].user, "diagnostic_attempts")
                    = {inflight[s].attempts + 1}
               /\ inflight'[s].check # "PASS"
                    => inflight'[s].chosen =
                         (IF inflight[s].attempts + 1 = 1 THEN "hint_mermaid"
                          ELSE IF inflight[s].attempts + 1 = 2 THEN "hint_pseudocode"
                          ELSE "reveal_answer")
        /\ \A a \in AnswerSlots :
            (inflight[a].pc = "grade" /\ inflight'[a].pc = "done")
            => LET before == quiz_store[inflight[a].user].results
                   after  == quiz_store'[inflight[a].user].results
               IN  /\ Len(after) = Len(before) + 1
                   /\ SubSeq(after, 1, Len(before)) = before
                   /\ after[Len(after)].question_index = inflight[a].question_index
      ]_vars

\* two failed submissions that both read 0 attempts and got the first hint,
\* the count at 1; two answers that both found no record and both recorded
\* question 0
C24_LostUpdateAndDuplicate ==
    /\ \A s \in SubmitSlots :
          /\ inflight[s].pc = "done" /\ inflight[s].status = "ok"
          /\ inflight[s].read = 0 /\ inflight[s].check # "PASS"
          /\ inflight[s].chosen = "hint_mermaid"
    /\ Col(progress, "u1", "diagnostic_attempts") = {1}
    /\ \A a \in AnswerSlots :
          /\ inflight[a].pc = "done" /\ inflight[a].status = "ok"
          /\ inflight[a].seen = 0 /\ inflight[a].question_index = 0
    /\ Len(quiz_store["u1"].results) = 2
    /\ \A k \in 1..2 : quiz_store["u1"].results[k].question_index = 0

\* C31: a gatekeeper, submission, quiz start or quiz answer call that ends
\* in an error leaves the Progress table and the quiz store as they were.
C31_ErrorsChangeNothing ==
    [][ (/\ last'.op \in {"gatekeeper", "submit_answer", "quiz_start", "quiz_answer"}
         /\ last'.status # "ok")
        => (progress' = progress /\ quiz_store' = quiz_store) ]_vars

\* C32: every Progress row has a topic and a current_level.
C32_RowsHaveTopicAndLevel ==
    \A u \in DOMAIN progress :
        {"topic", "current_level"} \subseteq DOMAIN progress[u]

\* a session started and answered in order so far
InOrder(s) ==
    /\ s.current_index = Len(s.results)
    /\ \A k \in 1..Len(s.results) : s.results[k].question_index = k - 1

\* C33: an answer that is returned, for the next question in order of a
\* session of n questions answered in order so far, has quiz_complete = true
\* exactly when it is the n-th (the session is then removed and total = n)
\* and otherwise leaves the session in order with one more answer; and a
\* session that keeps being answered in order leads to a completed quiz.
C33_InOrderCompletesAtLast ==
    /\ [][ \A u \in Users :
            (/\ last'.user = u /\ last'.op = "quiz_answer" /\ last'.status = "ok"
             /\ u \in DOMAIN quiz_store /\ InOrder(quiz_store[u])
             /\ last'.question_index = quiz_store[u].current_index)
            => LET n == Len(quiz_store[u].questions)
                   k == quiz_store[u].current_index
               IN  /\ last'.quiz_complete <=> (k = n - 1)
                   /\ IF k = n - 1
                      THEN u \notin DOMAIN quiz_store' /\ last'.total = n
                      ELSE /\ u \in DOMAIN quiz_store'
                           /\ InOrder(quiz_store'[u])
                           /\ quiz_store'[u].current_index = k + 1
                           /\ quiz_store'[u].questions = quiz_store[u].questions
          ]_vars
    /\ \A u \in Solo : (u \in DOMAIN quiz_store) ~> (last.user = u /\ IsQuizEnd(last))

\* the first of two questions answered, the quiz not complete
C33_FirstOfTwoAnswered ==
    /\ last.op = "quiz_answer" /\ last.status = "ok"
    /\ last.question_index = 0 /\ last.quiz_complete = FALSE
    /\ Len(quiz_store["u1"].questions) = 2
    /\ quiz_store["u1"].current_index = 1
    /\ Len(quiz_store["u1"].results) = 1

====
